---- MODULE Spec2Model ----
(***************************************************************************)
(* Model of clip_tokens (src/utils.py), the token-budget trimmer of a      *)
(* conversation history.  One behaviour is one call: Init draws the        *)
(* arguments, the actions walk the body of the function statement by       *)
(* statement, and pc = "done" is the state after its return.               *)
(*                                                                         *)
(* The tokenizer (tiktoken) is an external library; it is modelled by a    *)
(* small byte-pair tokenizer over a two-letter alphabet with one merge     *)
(* ("ab"), so that decode(encode(s)) = s while encode(decode(t)) may       *)
(* differ from t, as with the real one.                                    *)
(***************************************************************************)
EXTENDS Integers, Sequences, FiniteSets, TLC

\* ------------------------------------------------------------------ bounds
MaxMsgs == 3
MaxChars == 3
MaxBudget == 3
MaxNeg == 1

Roles == {"user", "assistant"}
Chars == {"a", "b"}

Min(x, y) == IF x < y THEN x ELSE y
Max(x, y) == IF x > y THEN x ELSE y

\* --------------------------------------------------------------- tokenizer
\* enc.encode: greedy left-to-right, the pair "a","b" merges into one token.
RECURSIVE encode(_)
encode(text) ==
    IF Len(text) = 0 THEN <<>>
    ELSE IF Len(text) >= 2 /\ text[1] = "a" /\ text[2] = "b"
         THEN <<"ab">> \o encode(SubSeq(text, 3, Len(text)))
         ELSE <<text[1]>> \o encode(Tail(text))

\* The text of one token.
TokenText(tok) == IF tok = "ab" THEN <<"a", "b">> ELSE <<tok>>

\* enc.decode: the concatenation of the tokens' texts.
RECURSIVE decode(_)
decode(tokens) ==
    IF Len(tokens) = 0 THEN <<>>
    ELSE TokenText(Head(tokens)) \o decode(Tail(tokens))

\* ------------------------------------------------------------ Python slices
\* seq[start:] with Python's clamping and negative-index rule.
PySliceFrom(seq, start) ==
    LET n == Len(seq)
        lo == IF start < 0 THEN Max(n + start, 0) ELSE Min(start, n)
    IN SubSeq(seq, lo + 1, n)

\* seq[start:stop] with Python's clamping and negative-index rule.
PySlice(seq, start, stop) ==
    LET n == Len(seq)
        lo == IF start < 0 THEN Max(n + start, 0) ELSE Min(start, n)
        hi == IF stop < 0 THEN Max(n + stop, 0) ELSE Min(stop, n)
    IN SubSeq(seq, lo + 1, hi)

\* ------------------------------------------------------------------ inputs
Texts(n) == UNION {[1..k -> Chars] : k \in 0..n}

\* The conversations of exactly n messages holding at most c characters.
RECURSIVE ConvsOf(_, _)
ConvsOf(n, c) ==
    IF n = 0 THEN {<<>>}
    ELSE UNION { { <<[role |-> r, content |-> t]>> \o s :
                       r \in Roles, s \in ConvsOf(n - 1, c - Len(t)) } :
                 t \in Texts(c) }

Conversations == UNION {ConvsOf(n, MaxChars) : n \in 0..MaxMsgs}
Budgets == (0 - MaxNeg)..MaxBudget

\* ------------------------------------------------- the steps of clip_tokens
\* sum([len(enc.encode(message["content"])) for message in messages])
RECURSIVE count_tokens(_)
count_tokens(msgs) ==
    IF Len(msgs) = 0 THEN 0
    ELSE Len(encode(Head(msgs).content)) + count_tokens(Tail(msgs))

UnderLimit_inverted(total, max) == total >= max
\* if total_tokens <= max_tokens: return messages
UnderLimit(total, max) == total <= max

\* tokenized_messages: the role and the token list of each message.
Tokenize(msgs) ==
    [k \in 1..Len(msgs) |->
        [role |-> msgs[k].role, content |-> encode(msgs[k].content)]]

\* all_tokens: the token lists of tokenized_messages, flattened in order.
RECURSIVE Flatten(_)
Flatten(tm) ==
    IF Len(tm) = 0 THEN <<>>
    ELSE Head(tm).content \o Flatten(Tail(tm))

ClippedTokens_offbyone(all, total, max) == PySliceFrom(all, total - max + 1)
ClippedTokens_lastmax(all, total, max) == PySliceFrom(all, 0 - max)
ClippedTokens_dropmax(all, total, max) == PySliceFrom(all, max)
\* clipped_tokens = all_tokens[total_tokens - max_tokens:]
ClippedTokens(all, total, max) == PySliceFrom(all, total - max)

Overflows_geq(idx, count, clipped) == idx + count >= Len(clipped)
\* if current_idx + message_token_count > len(clipped_tokens)
Overflows(idx, count, clipped) == idx + count > Len(clipped)

\* clipped_tokens[current_idx:]
BreakContent(clipped, idx) == PySliceFrom(clipped, idx)

ElseContent_nooffset(clipped, idx, count) == PySlice(clipped, idx, count)
\* clipped_tokens[current_idx:current_idx + message_token_count]
ElseContent(clipped, idx, count) == PySlice(clipped, idx, idx + count)

\* One iteration of the rebuild loop for `message`: whether it breaks, the
\* message it appends, the token slice that message was decoded from, and
\* the next current_idx.
LoopBody(message, clipped, idx) ==
    LET count == Len(message.content)
        brk == Overflows(idx, count, clipped)
        toks == IF brk THEN BreakContent(clipped, idx)
                ELSE ElseContent(clipped, idx, count)
    IN [brk |-> brk,
        msg |-> [role |-> message.role, content |-> decode(toks)],
        toks |-> toks,
        next_idx |-> IF brk THEN idx ELSE idx + count]

\* ------------------------------------------------------------------- state
VARIABLES
    messages,            \* argument
    max_tokens,          \* argument
    pc,                  \* "call" | "rebuild" | "done"
    total_tokens,
    tokenized_messages,
    all_tokens,
    clipped_tokens,
    clipped_messages,
    current_idx,
    it,                  \* position of the for loop in tokenized_messages
    spans,               \* per appended message: its clipped_message_content,
                         \* the loop iteration that built it (of) and the
                         \* offset of its first token in all_tokens (at)
    outcome,             \* "none" | "returned" | "InvalidBudget"
    result

vars == <<messages, max_tokens, pc, total_tokens, tokenized_messages,
          all_tokens, clipped_tokens, clipped_messages, current_idx, it,
          spans, outcome, result>>

\* The token span of every message of an unclipped conversation.
RECURSIVE OwnSpans(_, _, _)
OwnSpans(tm, k, at) ==
    IF k > Len(tm) THEN <<>>
    ELSE <<[toks |-> tm[k].content, of |-> k, at |-> at]>>
         \o OwnSpans(tm, k + 1, at + Len(tm[k].content))

Init ==
    /\ messages \in Conversations
    /\ max_tokens \in Budgets
    /\ pc = "call"
    /\ total_tokens = 0
    /\ tokenized_messages = <<>>
    /\ all_tokens = <<>>
    /\ clipped_tokens = <<>>
    /\ clipped_messages = <<>>
    /\ current_idx = 0
    /\ it = 1
    /\ spans = <<>>
    /\ outcome = "none"
    /\ result = <<>>

\* Lines 78-82: the total is within the limit, the input is returned as is.
EarlyReturn ==
    /\ pc = "call"
    /\ UnderLimit(count_tokens(messages), max_tokens)
    /\ total_tokens' = count_tokens(messages)
    /\ result' = messages
    /\ spans' = OwnSpans(Tokenize(messages), 1, 0)
    /\ outcome' = "returned"
    /\ pc' = "done"
    /\ UNCHANGED <<messages, max_tokens, tokenized_messages, all_tokens,
                   clipped_tokens, clipped_messages, current_idx, it>>

\* Lines 78-98: over the limit; tokenize, flatten, cut the front off.
StartClip ==
    /\ pc = "call"
    /\ ~UnderLimit(count_tokens(messages), max_tokens)
    /\ total_tokens' = count_tokens(messages)
    /\ tokenized_messages' = Tokenize(messages)
    /\ all_tokens' = Flatten(Tokenize(messages))
    /\ clipped_tokens' = ClippedTokens(Flatten(Tokenize(messages)),
                                       count_tokens(messages), max_tokens)
    /\ clipped_messages' = <<>>
    /\ current_idx' = 0
    /\ it' = 1
    /\ pc' = "rebuild"
    /\ UNCHANGED <<messages, max_tokens, spans, outcome, result>>

Step == LoopBody(tokenized_messages[it], clipped_tokens, current_idx)
SpanOf(step) ==
    [toks |-> step.toks, of |-> it,
     at |-> (Len(all_tokens) - Len(clipped_tokens)) + current_idx]

\* Lines 99-105 and 111: the message does not fit; append the rest, break,
\* return.
LoopBreak ==
    /\ pc = "rebuild"
    /\ it <= Len(tokenized_messages)
    /\ Step.brk
    /\ clipped_messages' = Append(clipped_messages, Step.msg)
    /\ spans' = Append(spans, SpanOf(Step))
    /\ result' = Append(clipped_messages, Step.msg)
    /\ outcome' = "returned"
    /\ pc' = "done"
    /\ UNCHANGED <<messages, max_tokens, total_tokens, tokenized_messages,
                   all_tokens, clipped_tokens, current_idx, it>>

\* Lines 99-101 and 106-110: the message fits; append its share, advance.
LoopElse ==
    /\ pc = "rebuild"
    /\ it <= Len(tokenized_messages)
    /\ ~Step.brk
    /\ clipped_messages' = Append(clipped_messages, Step.msg)
    /\ spans' = Append(spans, SpanOf(Step))
    /\ current_idx' = Step.next_idx
    /\ it' = it + 1
    /\ UNCHANGED <<messages, max_tokens, pc, total_tokens, tokenized_messages,
                   all_tokens, clipped_tokens, outcome, result>>

\* Lines 99 and 111: the for loop is exhausted without a break; return.
LoopExit ==
    /\ pc = "rebuild"
    /\ it > Len(tokenized_messages)
    /\ result' = clipped_messages
    /\ outcome' = "returned"
    /\ pc' = "done"
    /\ UNCHANGED <<messages, max_tokens, total_tokens, tokenized_messages,
                   all_tokens, clipped_tokens, clipped_messages, current_idx,
                   it, spans>>

Next == EarlyReturn \/ StartClip \/ LoopBreak \/ LoopElse \/ LoopExit

Spec == Init /\ [][Next]_vars

\* ---------------------------------------------- the function as an operator
\* The rebuild loop from iteration k on: the appended messages and spans.
RECURSIVE Rebuild(_, _, _, _, _)
Rebuild(tm, clipped, k, idx, base) ==
    IF k > Len(tm) THEN [msgs |-> <<>>, spans |-> <<>>]
    ELSE LET step == LoopBody(tm[k], clipped, idx)
             span == [toks |-> step.toks, of |-> k, at |-> base + idx]
             rest == IF step.brk THEN [msgs |-> <<>>, spans |-> <<>>]
                     ELSE Rebuild(tm, clipped, k + 1, step.next_idx, base)
         IN [msgs |-> <<step.msg>> \o rest.msgs,
             spans |-> <<span>> \o rest.spans]

\* clip_tokens(messages, max_tokens=max): the returned list and its spans.
clip_tokens(msgs, max) ==
    LET total == count_tokens(msgs)
        tm == Tokenize(msgs)
        all == Flatten(tm)
        clipped == ClippedTokens(all, total, max)
    IN IF UnderLimit(total, max)
       THEN [msgs |-> msgs, spans |-> OwnSpans(tm, 1, 0)]
       ELSE Rebuild(tm, clipped, 1, 0, Len(all) - Len(clipped))

\* ------------------------------------------------- vocabulary of the claims
\* The flattened token sequence of a conversation.
RECURSIVE InputTokens(_)
InputTokens(msgs) ==
    IF Len(msgs) = 0 THEN <<>>
    ELSE encode(Head(msgs).content) \o InputTokens(Tail(msgs))

TotalIn == Len(InputTokens(messages))
Excess == TotalIn - max_tokens
CountOf(i) == Len(encode(messages[i].content))
StartOf(i) == Len(InputTokens(SubSeq(messages, 1, i - 1)))
EndOf(i) == StartOf(i) + CountOf(i)

\* The concatenation of the token sequences the output was decoded from.
RECURSIVE SpanTokens(_)
SpanTokens(sp) ==
    IF Len(sp) = 0 THEN <<>>
    ELSE Head(sp).toks \o SpanTokens(Tail(sp))

SpanTotal(sp) == Len(SpanTokens(sp))

Done == pc = "done"
\* The call returned and total_tokens > budget > 0.
Cut == Done /\ TotalIn > max_tokens /\ max_tokens > 0

\* Span s holds only tokens of input message i.
Within(s, i) == StartOf(i) <= s.at /\ s.at + Len(s.toks) <= EndOf(i)
\* Input message i is absent from an output: no message was built for it.
AbsentByPosition(sp, i) == \A j \in 1..Len(sp) : sp[j].of # i
\* Input message i is absent from an output: none of its tokens is there.
AbsentByTokens(sp, i) ==
    \A j \in 1..Len(sp) :
        \/ Len(sp[j].toks) = 0
        \/ CountOf(i) = 0
        \/ sp[j].at + Len(sp[j].toks) <= StartOf(i)
        \/ EndOf(i) <= sp[j].at

\* -------------------------------------------------------------------- C1
\* C1: when total_tokens > budget > 0, the token sequences the output
\* messages were decoded from hold exactly budget tokens in total.
C1_BudgetSatisfaction == Cut => SpanTotal(spans) = max_tokens

C1_Witness ==
    /\ Cut
    /\ Len(messages) = 3
    /\ max_tokens = 2
    /\ Len(result) = 2
    /\ Len(spans[2].toks) = 1

\* -------------------------------------------------------------------- C2
\* C2: when total_tokens <= budget (the empty conversation included), the
\* returned conversation equals the input: same length, order, roles and
\* contents.
C2_Identity ==
    (Done /\ TotalIn <= max_tokens) =>
        /\ Len(result) = Len(messages)
        /\ \A i \in 1..Len(messages) :
              /\ result[i].role = messages[i].role
              /\ result[i].content = messages[i].content

C2_Witness ==
    /\ Done
    /\ TotalIn <= max_tokens
    /\ Len(messages) = 2
    /\ TotalIn = 2
    /\ max_tokens = 3
    /\ result = messages

\* -------------------------------------------------------------------- C3
\* C3: when total_tokens > budget > 0, every output message that holds
\* tokens holds tokens of one single input message and carries the role of
\* that input message.
C3_RolePreservation ==
    Cut =>
        \A j \in 1..Len(result) :
            Len(spans[j].toks) > 0 =>
                \E i \in 1..Len(messages) :
                    /\ Within(spans[j], i)
                    /\ result[j].role = messages[i].role

\* -------------------------------------------------------------------- C4
\* C4: when total_tokens > budget > 0, no output message is built for an
\* input message whose tokens all lie in the dropped prefix; and when the
\* budget is smaller than the last message's token count the output is one
\* message, the tail of the last input message.
C4_DroppedOmitted ==
    Cut =>
        /\ \A i \in 1..Len(messages) :
              (CountOf(i) > 0 /\ EndOf(i) <= Excess) =>
                  AbsentByPosition(spans, i)
        /\ max_tokens < CountOf(Len(messages)) =>
              /\ Len(result) = 1
              /\ spans[1].of = Len(messages)
              /\ Within(spans[1], Len(messages))

\* -------------------------------------------------------------------- C5
\* C5: when total_tokens > budget > 0, every input message whose tokens all
\* lie after the cut is in the output as one message with its role and its
\* complete token sequence.
C5_TrailingIntact ==
    Cut =>
        \A i \in 1..Len(messages) :
            (CountOf(i) > 0 /\ StartOf(i) >= Excess) =>
                \E j \in 1..Len(result) :
                    /\ result[j].role = messages[i].role
                    /\ spans[j].toks = encode(messages[i].content)
                    /\ result[j].content = messages[i].content

\* -------------------------------------------------------------------- C6
\* C6 (as claimed): a call with budget <= 0 ends in the error InvalidBudget
\* and returns no conversation.
C6_InvalidBudget ==
    (Done /\ max_tokens <= 0) => (outcome = "InvalidBudget" /\ result = <<>>)

\* C6 (amended): a call with budget <= 0 raises no error; it returns a
\* conversation that holds no token at all.
C6_NonPositiveBudgetReturns ==
    (Done /\ max_tokens <= 0) =>
        /\ outcome = "returned"
        /\ SpanTotal(spans) = 0
        /\ \A j \in 1..Len(result) : result[j].content = <<>>

C6_Witness ==
    /\ Done
    /\ max_tokens = 0
    /\ TotalIn = 3
    /\ outcome = "returned"
    /\ Len(result) = 1

\* -------------------------------------------------------------------- C7
\* C7: for budgets b1 > b2 > 0 the result at b2 holds no more tokens than
\* the result at b1, and an input message absent from the result at b1 is
\* absent from the result at b2 (b1 is the budget of the call, b2 ranges
\* over the smaller positive budgets).
C7_Monotonicity ==
    (Done /\ max_tokens > 0) =>
        \A b2 \in 1..(max_tokens - 1) :
            LET lower == clip_tokens(messages, b2) IN
            /\ SpanTotal(lower.spans) <= SpanTotal(spans)
            /\ Len(lower.msgs) <= Len(result)
            /\ \A i \in 1..Len(messages) :
                  /\ AbsentByPosition(spans, i) =>
                        AbsentByPosition(lower.spans, i)
                  /\ AbsentByTokens(spans, i) =>
                        AbsentByTokens(lower.spans, i)

C7_Witness ==
    /\ Cut
    /\ max_tokens = 2
    /\ Len(messages) = 3
    /\ TotalIn = 3
    /\ Len(result) = 2
    /\ AbsentByPosition(spans, 3)
    /\ AbsentByPosition(clip_tokens(messages, 1).spans, 2)
    /\ SpanTotal(clip_tokens(messages, 1).spans) < SpanTotal(spans)

\* -------------------------------------------------------------------- C8
\* C8: for a non-empty conversation, when excess = total_tokens - budget is
\* >= total_tokens the call returns the empty sequence of messages, without
\* error.
C8_AllDroppedEmpty ==
    (Done /\ Len(messages) > 0 /\ Excess >= TotalIn) =>
        (result = <<>> /\ outcome = "returned")

\* -------------------------------------------------------------------- C9
\* C9: when total_tokens > budget > 0, the output's token sequences,
\* concatenated in output order, are the flattened input with exactly its
\* first total_tokens - budget tokens removed.
C9_PrefixRemoved ==
    Cut => SpanTokens(spans) = SubSeq(InputTokens(messages), Excess + 1, TotalIn)

C9_Witness ==
    /\ Cut
    /\ Len(messages) = 3
    /\ Excess = 1
    /\ Len(result) = 3
    /\ SpanTokens(spans) = <<"a", "b">>

\* ------------------------------------------------------------------- C10
\* The shape the rebuild loop leaves when it ends on a break: k messages,
\* 1 <= k <= n, roles the first k input roles, all but the last as long as
\* the input message at the same position, the last strictly shorter.
BreakShape ==
    LET k == Len(result) IN
    /\ 1 <= k
    /\ k <= Len(messages)
    /\ \A j \in 1..k : result[j].role = messages[j].role
    /\ \A j \in 1..(k - 1) : Len(spans[j].toks) = CountOf(j)
    /\ Len(spans[k].toks) < CountOf(k)

\* C10 (as claimed): for every non-empty conversation and every budget with
\* total_tokens > budget the output has the shape above.
C10_LoopShape ==
    (Done /\ Len(messages) > 0 /\ TotalIn > max_tokens) => BreakShape

\* C10 (amended): the output has the shape above whenever total_tokens > 0;
\* when total_tokens = 0 (the budget is negative) the loop never breaks and
\* the output has every input message, in order, with its role and no token.
C10_LoopShapeAmended ==
    (Done /\ Len(messages) > 0 /\ TotalIn > max_tokens) =>
        IF TotalIn > 0 THEN BreakShape
        ELSE /\ Len(result) = Len(messages)
             /\ \A j \in 1..Len(result) :
                   /\ result[j].role = messages[j].role
                   /\ Len(spans[j].toks) = 0
                   /\ result[j].content = <<>>

C10_Witness ==
    /\ Done
    /\ Len(messages) = 3
    /\ TotalIn = 3
    /\ max_tokens = 2
    /\ Len(result) = 3
    /\ Len(spans[3].toks) = 0
    /\ BreakShape

====
